---- MODULE Spec2Model ----
(***************************************************************************)
(* Model of receptor/buffers/file.py: DurableBuffer, a FIFO of item        *)
(* descriptors backed by one payload file per item and a manifest file     *)
(* that a background task rewrites whenever the buffer is dirty.           *)
(*                                                                         *)
(* Tasks run on one asyncio loop, so a step of the model is the code a     *)
(* task runs between two real suspension points (a deferred file           *)
(* operation, an Event or Lock that is not available, an empty queue, a    *)
(* sleep).  An await that does not suspend (Queue.put/get on an unbounded, *)
(* non-empty queue, Event.wait on a set event) does not end a step.        *)
(***************************************************************************)
EXTENDS Integers, Sequences, FiniteSets, TLC

\* ---- bounds of the model ----
NumCallers == 2      \* tasks calling put / get / put_ident / expire_all
MaxItems == 2        \* descriptors ever created (uuid4 values drawn)
MaxTime == 6         \* the clock stops advancing here
MaxSweeps == 1       \* expire_all runs per buffer instance
MaxRestarts == 1     \* simulated process restarts
NumKeys == 2         \* keys looked up in a FileBufferManager
MaxLookups == 4      \* lookups on a FileBufferManager

\* ---- program constant: timedelta(minutes=5) ----
TTL == 5

Callers == 1..NumCallers
Keys == 1..NumKeys

VARIABLES
    now,            \* datetime.utcnow(), in minutes
    manifest,       \* content of the manifest file on disk
    files,          \* paths of the payload files that exist under messages/
    nextId,         \* number of uuid4 names drawn so far
    qs,             \* the asyncio.Queue objects self.q has been bound to
    manifest_dirty, \* self._manifest_dirty (Event)
    manifest_clean, \* self._manifest_clean (Event)
    ready,          \* self.ready (Event)
    manifest_lock,  \* holder of self._manifest_lock
    spc,            \* position of the start_manifest task
    data,           \* what start_manifest read from the manifest file
    loaded_items,   \* what _read_manifest returned to start_manifest
    wpc,            \* position of the manifest_writer task
    snap,           \* json.dumps(list(self.q._queue)) being written
    pc,             \* position of each caller
    item,           \* the descriptor a put caller is writing
    bound,          \* the queue object a suspended get awaits
    out,            \* the exception each caller's last call raised
    getLog,         \* descriptors returned by get, in order
    plain,          \* so far: only puts, one at a time and all written, and
                    \* gets that found nothing expired
    waited,         \* callers whose current call found READY unset
    expiredGot,     \* ids of descriptors get popped and found expired
    badGot,         \* ids of descriptors get popped and could not examine
    mutSinceFlush,  \* the queue was mutated since the last flush began
    restarts,       \* restarts so far
    pre,            \* the buffer as it was when the process was restarted
    enq,            \* descriptors appended to the queue, in order, and by what
    supply,         \* descriptors the callers may create in this run
    buffers,        \* FileBufferManager: the dict, key -> DurableBuffer
    made,           \* FileBufferManager: DurableBuffer objects constructed
    up,             \* FileBufferManager: the buffers whose READY is set
    handed          \* FileBufferManager: what each lookup returned

disk == <<manifest, files>>
flags == <<manifest_dirty, manifest_clean>>
startup == <<spc, data, loaded_items>>
writer == <<wpc, snap>>
callers == <<pc, item, bound, out>>
history == <<getLog, plain, waited, expiredGot, badGot, restarts, pre, enq>>
registry == <<buffers, made, up, handed>>
vars == <<now, manifest, files, nextId, qs, manifest_dirty, manifest_clean,
          ready, manifest_lock, spc, data, loaded_items, wpc, snap, pc, item,
          bound, out, getLog, plain, waited, expiredGot, badGot, mutSinceFlush,
          restarts, pre, enq, supply, buffers, made, up, handed>>

\* ---- descriptors ----
\* expire_time of a descriptor: a datetime, something that is not one, or absent
DateTime(t) == [k |-> "dt", t |-> t]
NotADate == [k |-> "str", t |-> 0]
NoField == [k |-> "none", t |-> 0]
NoPath == 0
NoItem == [id |-> 0, path |-> NoPath, et |-> NoField]
NoBuffer == 0

\* the dict built by put: path is messages/<uuid>, expire_time is now + 5 minutes
NewItem(i, t) == [id |-> i, path |-> i, et |-> DateTime(t + TTL)]

\* descriptors a caller may hand to put_ident
IdentKinds == {"noet", "badet", "nopath", "stale"}
IdentItem(kind, i, t) ==
    CASE kind = "noet" -> [id |-> i, path |-> i, et |-> NoField]
      [] kind = "badet" -> [id |-> i, path |-> i, et |-> NotADate]
      [] kind = "nopath" -> [id |-> i, path |-> NoPath, et |-> DateTime(t + TTL)]
      [] kind = "stale" -> [id |-> i, path |-> i, et |-> DateTime(t - 1)]

\* is_expired that never raises
is_expired_never_raises(d) == FALSE

\* is_expired with the comparison the other way round
is_expired_reversed(d, t) == d.et.t > t

\* item["expire_time"] raises KeyError, or the comparison raises TypeError
is_expired_raises(d) == d.et.k # "dt"
is_expired(d, t) == d.et.t < t

Live(d, t) == ~is_expired_raises(d) /\ ~is_expired(d, t)
Stale(d, t) == ~is_expired_raises(d) /\ is_expired(d, t)

\* self.q
cur == Len(qs)
q == qs[cur]

\* ---- the manifest file and its codec ----
Missing == [kind |-> "missing", body |-> <<>>]
Garbage == [kind |-> "garbage", body |-> <<>>]
Truncated == [kind |-> "empty", body |-> <<>>]

encode(d) == [id |-> d.id, path |-> d.path,
              et |-> IF d.et.k = "dt" THEN [k |-> "ts", t |-> d.et.t] ELSE d.et]
decode(e) == [id |-> e.id, path |-> e.path,
              et |-> IF e.et.k = "ts" THEN [k |-> "dt", t |-> e.et.t] ELSE e.et]
dumps(s) == [kind |-> "json", body |-> [i \in 1..Len(s) |-> encode(s[i])]]
loads_raises(m) == m.kind # "json"
loads(m) == [i \in 1..Len(m.body) |-> decode(m.body[i])]

\* the else branch of _read_manifest: json.loads(data), or its handlers
try_loads(m) == IF loads_raises(m) THEN <<>> ELSE loads(m)

\* the finally clause of _read_manifest: its return replaces whatever the
\* try block or a handler was about to return
finally_return(r) == <<>>

\* _read_manifest once the file has been read
read_manifest(m) == finally_return(try_loads(m))

\* clean() that sets the clean event and leaves the dirty event set
clean_keeps_dirty == manifest_dirty' = manifest_dirty /\ manifest_clean' = TRUE

\* dirty() that sets the dirty event and leaves the clean event as it is
dirty_keeps_clean == manifest_dirty' = TRUE /\ manifest_clean' = manifest_clean

\* ---- dirty() and clean() ----
dirty == manifest_dirty' = TRUE /\ manifest_clean' = FALSE
clean == manifest_dirty' = FALSE /\ manifest_clean' = TRUE

\* the state after DurableBuffer.__init__ and FileBufferManager.__init__, in
\* a run whose callers may create n descriptors
Start(n) ==
    /\ now = 0
    /\ manifest \in {Missing, Garbage}
    /\ files = {}
    /\ nextId = 0
    /\ qs = << <<>> >>
    /\ manifest_dirty = FALSE
    /\ manifest_clean = FALSE
    /\ ready = FALSE
    /\ manifest_lock = "free"
    /\ spc = "open"
    /\ data = Missing
    /\ loaded_items = <<>>
    /\ wpc = "unborn"
    /\ snap = dumps(<<>>)
    /\ pc = [c \in Callers |-> "idle"]
    /\ item = [c \in Callers |-> NoItem]
    /\ bound = [c \in Callers |-> 0]
    /\ out = [c \in Callers |-> "none"]
    /\ getLog = <<>>
    /\ plain = TRUE
    /\ waited = {}
    /\ expiredGot = {}
    /\ badGot = {}
    /\ mutSinceFlush = FALSE
    /\ restarts = 0
    /\ pre = [q |-> <<>>, synced |-> FALSE]
    /\ enq = <<>>
    /\ supply = n
    /\ buffers = [k \in Keys |-> NoBuffer]
    /\ made = 0
    /\ up = {}
    /\ handed = <<>>

Init == Start(MaxItems)

\* ---- start_manifest ----
\* lines 47-51: push the loaded items, set READY, launch the manifest writer
StartComplete(items) ==
    /\ loaded_items' = items
    /\ qs' = [qs EXCEPT ![cur] = @ \o items]
    /\ ready' = TRUE
    /\ wpc' = "wait_dirty"
    /\ spc' = "done"

\* fileio.File(self._manifest_path, "r") opens the file, or FileNotFoundError
StartOpen ==
    /\ spc = "open"
    /\ IF manifest.kind = "missing"
       THEN StartComplete(<<>>)
       ELSE /\ spc' = "read"
            /\ UNCHANGED <<loaded_items, qs, ready, wpc>>
    /\ UNCHANGED <<now, disk, nextId, flags, manifest_lock, data, snap,
                   callers, history, mutSinceFlush,
                   registry, supply>>

\* start_manifest that launches the manifest writer before READY is set
StartReadLaunch ==
    /\ spc = "read"
    /\ data' = manifest
    /\ spc' = "close"
    /\ wpc' = "wait_dirty"
    /\ UNCHANGED <<now, disk, nextId, qs, flags, ready, manifest_lock,
                   loaded_items, snap, callers, history, mutSinceFlush,
                   registry, supply>>

\* await fp.read()
StartRead ==
    /\ spc = "read"
    /\ data' = manifest
    /\ spc' = "close"
    /\ UNCHANGED <<now, disk, nextId, qs, flags, ready, manifest_lock,
                   loaded_items, writer, callers, history, mutSinceFlush,
                   registry, supply>>

\* start_manifest with a _read_manifest that lets the decoding error escape
StartFinishStrict ==
    /\ spc = "close"
    /\ IF loads_raises(data)
       THEN /\ spc' = "failed"
            /\ UNCHANGED <<loaded_items, qs, ready, wpc>>
       ELSE StartComplete(read_manifest(data))
    /\ UNCHANGED <<now, disk, nextId, flags, manifest_lock, data, snap,
                   callers, history, mutSinceFlush,
                   registry, supply>>

\* the file is closed; decode, push, READY
StartFinish ==
    /\ spc = "close"
    /\ StartComplete(read_manifest(data))
    /\ UNCHANGED <<now, disk, nextId, flags, manifest_lock, data, snap,
                   callers, history, mutSinceFlush,
                   registry, supply>>

\* opening or reading fails with an error other than FileNotFoundError
\* (PermissionError, ...): nothing in _read_manifest or start_manifest
\* catches it and the task ends
StartFail ==
    /\ spc \in {"open", "read"}
    /\ manifest.kind # "missing"
    /\ spc' = "failed"
    /\ UNCHANGED <<now, disk, nextId, qs, flags, ready, manifest_lock, data,
                   loaded_items, writer, callers, history, mutSinceFlush,
                   registry, supply>>

\* ---- put ----
\* descriptors still to be created by the calls already issued
Pending == Cardinality({c \in Callers : pc[c] = "put_ready"})

\* lines 55-71: draw the file name, build the descriptor, defer _f
PutStart(c) ==
    /\ nextId' = nextId + 1
    /\ item' = [item EXCEPT ![c] = NewItem(nextId + 1, now)]
    /\ pc' = [pc EXCEPT ![c] = "put_write"]

\* a caller starts put(framed_message): await self.ready.wait() suspends
\* the call unless READY is set
PutCall(c) ==
    /\ pc[c] = "idle"
    /\ nextId + Pending < supply
    /\ IF ready
       THEN PutStart(c) /\ waited' = waited \ {c}
       ELSE /\ pc' = [pc EXCEPT ![c] = "put_ready"]
            /\ waited' = waited \cup {c}
            /\ UNCHANGED <<nextId, item>>
    /\ out' = [out EXCEPT ![c] = "none"]
    /\ plain' = (plain /\ \A o \in Callers : pc[o] \notin {"put_ready", "put_write", "put_enqueue"})
    /\ UNCHANGED <<now, disk, qs, flags, ready, manifest_lock, startup,
                   writer, bound, getLog, expiredGot, badGot, mutSinceFlush,
                   restarts, pre, enq,
                   registry, supply>>

\* put that does not wait for READY
PutBeginNoWait(c) ==
    /\ pc[c] = "put_ready"
    /\ PutStart(c)
    /\ UNCHANGED <<now, disk, qs, flags, ready, manifest_lock, startup,
                   writer, bound, out, history, mutSinceFlush,
                   registry, supply>>

\* READY has been set: the suspended put resumes
PutBegin(c) ==
    /\ pc[c] = "put_ready"
    /\ ready
    /\ PutStart(c)
    /\ UNCHANGED <<now, disk, qs, flags, ready, manifest_lock, startup,
                   writer, bound, out, history, mutSinceFlush,
                   registry, supply>>

\* put that goes on to enqueue although _f wrote no file
PutWrittenLost(c) ==
    /\ pc[c] = "put_write"
    /\ pc' = [pc EXCEPT ![c] = "put_enqueue"]
    /\ UNCHANGED <<now, disk, nextId, qs, flags, ready, manifest_lock,
                   startup, writer, item, bound, out, history, mutSinceFlush,
                   registry, supply>>

\* _f runs in the executor: the payload file is written
PutWritten(c) ==
    /\ pc[c] = "put_write"
    /\ files' = files \cup {item[c].path}
    /\ pc' = [pc EXCEPT ![c] = "put_enqueue"]
    /\ UNCHANGED <<now, manifest, nextId, qs, flags, ready, manifest_lock,
                   startup, writer, item, bound, out, history, mutSinceFlush,
                   registry, supply>>

\* put that enqueues its descriptor although _f raised
PutWriteFailEnqueue(c) ==
    /\ pc[c] = "put_write"
    /\ qs' = [qs EXCEPT ![cur] = Append(@, item[c])]
    /\ dirty
    /\ mutSinceFlush' = TRUE
    /\ pc' = [pc EXCEPT ![c] = "idle"]
    /\ item' = [item EXCEPT ![c] = NoItem]
    /\ out' = [out EXCEPT ![c] = "OSError"]
    /\ plain' = FALSE
    /\ enq' = Append(enq, [d |-> item[c], by |-> "put"])
    /\ UNCHANGED <<now, disk, nextId, ready, manifest_lock, startup, writer,
                   bound, getLog, waited, expiredGot, badGot, restarts, pre,
                   registry, supply>>

\* _f raises (open or write fails): defer re-raises in put, which ends there
PutWriteFail(c) ==
    /\ pc[c] = "put_write"
    /\ pc' = [pc EXCEPT ![c] = "idle"]
    /\ item' = [item EXCEPT ![c] = NoItem]
    /\ out' = [out EXCEPT ![c] = "OSError"]
    /\ plain' = FALSE
    /\ UNCHANGED <<now, disk, nextId, qs, flags, ready, manifest_lock,
                   startup, writer, bound, getLog, waited, expiredGot, badGot,
                   mutSinceFlush, restarts, pre, enq,
                   registry, supply>>

\* put_ident with the descriptor pushed at the front of the queue
put_ident_front(d) ==
    /\ qs' = [qs EXCEPT ![cur] = <<d>> \o @]
    /\ dirty
    /\ mutSinceFlush' = TRUE

\* put_ident: await self.q.put(ident); self.dirty()
put_ident(d) ==
    /\ qs' = [qs EXCEPT ![cur] = Append(@, d)]
    /\ dirty
    /\ mutSinceFlush' = TRUE

\* the deferred write has completed: await self.put_ident(item)
PutEnqueue(c) ==
    /\ pc[c] = "put_enqueue"
    /\ put_ident(item[c])
    /\ enq' = Append(enq, [d |-> item[c], by |-> "put"])
    /\ pc' = [pc EXCEPT ![c] = "idle"]
    /\ item' = [item EXCEPT ![c] = NoItem]
    /\ UNCHANGED <<now, disk, nextId, ready, manifest_lock, startup, writer,
                   bound, out, getLog, plain, waited, expiredGot, badGot,
                   restarts, pre,
                   registry, supply>>

\* a caller hands a descriptor of its own to put_ident (no wait for READY)
PutIdent(c) ==
    /\ pc[c] = "idle"
    /\ nextId + Pending < supply
    /\ \E kind \in IdentKinds :
          LET d == IdentItem(kind, nextId + 1, now)
          IN  put_ident(d) /\ enq' = Append(enq, [d |-> d, by |-> "put_ident"])
    /\ nextId' = nextId + 1
    /\ out' = [out EXCEPT ![c] = "none"]
    /\ waited' = waited \ {c}
    /\ plain' = FALSE
    /\ UNCHANGED <<now, disk, ready, manifest_lock, startup, writer, pc,
                   item, bound, getLog, expiredGot, badGot, restarts, pre,
                   registry, supply>>

\* ---- get ----
\* the loop of get on self.q as long as it is not empty: pop, drop what is
\* expired (self.expire(item) builds a coroutine that is never awaited, so
\* nothing is deleted) or raises TypeError/KeyError, return the first other
RECURSIVE Scan(_, _)
Scan(s, t) ==
    IF s = <<>>
    THEN [found |-> FALSE, ret |-> NoItem, rest |-> <<>>, stale |-> {}, bad |-> {}]
    ELSE IF is_expired_raises(Head(s))
         THEN LET r == Scan(Tail(s), t)
              IN  [r EXCEPT !.bad = @ \cup {Head(s).id}]
    ELSE IF is_expired(Head(s), t)
         THEN LET r == Scan(Tail(s), t)
              IN  [r EXCEPT !.stale = @ \cup {Head(s).id}]
    ELSE [found |-> TRUE, ret |-> Head(s), rest |-> Tail(s), stale |-> {}, bad |-> {}]

\* get resumes or continues with queue object g, which holds an item: it
\* pops from g, and as long as it has nothing to return it goes round the
\* loop, on self.q, until self.q is empty; every pop is followed by
\* self.dirty()
GetRun(c, g) ==
    LET h == Head(qs[g])
        qs1 == [qs EXCEPT ![g] = Tail(@)]
        good == Live(h, now)
        r == Scan(qs1[cur], now)
        found == good \/ r.found
        gone == IF good THEN {}
                ELSE (IF Stale(h, now) THEN {h.id} ELSE {}) \cup r.stale
        bad == IF good THEN {}
               ELSE (IF is_expired_raises(h) THEN {h.id} ELSE {}) \cup r.bad
    IN  /\ qs' = IF good THEN qs1 ELSE [qs1 EXCEPT ![cur] = r.rest]
        /\ dirty
        /\ mutSinceFlush' = TRUE
        /\ expiredGot' = expiredGot \cup gone
        /\ badGot' = badGot \cup bad
        /\ plain' = (plain /\ gone = {})
        /\ IF found
           THEN /\ getLog' = Append(getLog, IF good THEN h ELSE r.ret)
                /\ pc' = [pc EXCEPT ![c] = "idle"]
                /\ bound' = [bound EXCEPT ![c] = 0]
           ELSE /\ getLog' = getLog
                /\ pc' = [pc EXCEPT ![c] = "get_q"]
                /\ bound' = [bound EXCEPT ![c] = cur]

\* item = await self.q.get(): suspends on self.q if it is empty
GetStart(c) ==
    IF q = <<>>
    THEN /\ pc' = [pc EXCEPT ![c] = "get_q"]
         /\ bound' = [bound EXCEPT ![c] = cur]
         /\ UNCHANGED <<qs, flags, mutSinceFlush, expiredGot, badGot, plain,
                        getLog>>
    ELSE GetRun(c, cur)

\* a caller starts get(): await self.ready.wait() suspends the call unless
\* READY is set
GetCall(c) ==
    /\ pc[c] = "idle"
    /\ IF ready
       THEN GetStart(c) /\ waited' = waited \ {c}
       ELSE /\ pc' = [pc EXCEPT ![c] = "get_ready"]
            /\ waited' = waited \cup {c}
            /\ UNCHANGED <<qs, flags, mutSinceFlush, expiredGot, badGot,
                           plain, getLog, bound>>
    /\ out' = [out EXCEPT ![c] = "none"]
    /\ UNCHANGED <<now, disk, nextId, ready, manifest_lock, startup, writer,
                   item, restarts, pre, enq,
                   registry, supply>>

\* READY has been set: the suspended get resumes
GetBegin(c) ==
    /\ pc[c] = "get_ready"
    /\ ready
    /\ GetStart(c)
    /\ UNCHANGED <<now, disk, nextId, ready, manifest_lock, startup, writer,
                   item, out, waited, restarts, pre, enq,
                   registry, supply>>

\* the queue object the suspended get awaits holds an item: the get resumes
GetResume(c) ==
    /\ pc[c] = "get_q"
    /\ qs[bound[c]] # <<>>
    /\ GetRun(c, bound[c])
    /\ UNCHANGED <<now, disk, nextId, ready, manifest_lock, startup, writer,
                   item, out, waited, restarts, pre, enq,
                   registry, supply>>

\* ---- expire_all ----
\* the loop of expire_all over the old queue: an item that is not expired
\* goes to the new queue; at the first item that is expired, expire(item)
\* is awaited and raises AttributeError (it uses self._deferrer, the
\* attribute is self.deferrer), and at the first item whose expire_time is
\* missing or not a datetime is_expired raises; the popped item is gone and
\* the items behind it stay in the old queue
RECURSIVE Sweep(_, _)
Sweep(s, t) ==
    IF s = <<>> THEN [kept |-> <<>>, left |-> <<>>, raised |-> "none"]
    ELSE IF Live(Head(s), t)
         THEN LET r == Sweep(Tail(s), t)
              IN  [r EXCEPT !.kept = <<Head(s)>> \o @]
    ELSE [kept |-> <<>>, left |-> Tail(s),
          raised |-> IF Stale(Head(s), t) THEN "AttributeError"
                     ELSE IF Head(s).et.k = "none" THEN "KeyError"
                     ELSE "TypeError"]

\* the lock is held: swap the queue, run the loop, self.dirty() if the loop
\* ended without an exception; the lock is released either way
SweepBody(c) ==
    /\ LET r == Sweep(q, now)
       IN  /\ qs' = [qs EXCEPT ![cur] = r.left] \o <<r.kept>>
           /\ IF r.raised = "none" THEN dirty ELSE UNCHANGED flags
           /\ out' = [out EXCEPT ![c] = r.raised]
    /\ mutSinceFlush' = TRUE
    /\ pc' = [pc EXCEPT ![c] = "idle"]
    /\ plain' = FALSE
    /\ UNCHANGED manifest_lock

\* expire_all that does not take the manifest lock
SweepCallNoLock(c) ==
    /\ pc[c] = "idle"
    /\ Len(qs) + Cardinality({o \in Callers : pc[o] = "sweep_lock"}) <= MaxSweeps
    /\ SweepBody(c)
    /\ waited' = waited \ {c}
    /\ UNCHANGED <<now, disk, nextId, ready, startup, writer, item, bound,
                   getLog, expiredGot, badGot, restarts, pre, enq,
                   registry, supply>>

\* a caller starts expire_all(): async with self._manifest_lock suspends
\* the call while the manifest writer holds the lock
SweepCall(c) ==
    /\ pc[c] = "idle"
    /\ Len(qs) + Cardinality({o \in Callers : pc[o] = "sweep_lock"}) <= MaxSweeps
    /\ IF manifest_lock = "free"
       THEN SweepBody(c)
       ELSE /\ pc' = [pc EXCEPT ![c] = "sweep_lock"]
            /\ out' = [out EXCEPT ![c] = "none"]
            /\ UNCHANGED <<qs, flags, mutSinceFlush, plain, manifest_lock>>
    /\ waited' = waited \ {c}
    /\ UNCHANGED <<now, disk, nextId, ready, startup, writer, item, bound,
                   getLog, expiredGot, badGot, restarts, pre, enq,
                   registry, supply>>

\* the lock has been released: the suspended expire_all resumes
SweepRun(c) ==
    /\ pc[c] = "sweep_lock"
    /\ manifest_lock = "free"
    /\ SweepBody(c)
    /\ UNCHANGED <<now, disk, nextId, ready, startup, writer, item, bound,
                   getLog, waited, expiredGot, badGot, restarts, pre, enq,
                   registry, supply>>

\* ---- manifest_writer ----
\* await self._manifest_dirty.wait() returns; async with self._manifest_lock
\* (expire_all never holds the lock across a suspension, so it is free)
WriterWake ==
    /\ wpc = "wait_dirty"
    /\ manifest_dirty
    /\ manifest_lock = "free"
    /\ manifest_lock' = "writer"
    /\ wpc' = "open"
    /\ mutSinceFlush' = FALSE
    /\ UNCHANGED <<now, disk, nextId, qs, flags, ready, startup, snap,
                   callers, history,
                   registry, supply>>

\* fileio.File(path, "w") has opened (and so emptied) the file; the writer
\* resumes, serialises list(self.q._queue) and hands it to fp.write
WriterOpen ==
    /\ wpc = "open"
    /\ manifest' = Truncated
    /\ snap' = dumps(q)
    /\ wpc' = "write"
    /\ UNCHANGED <<now, files, nextId, qs, flags, ready, manifest_lock,
                   startup, callers, history, mutSinceFlush,
                   registry, supply>>

\* fp.write has written the text
WriterWrite ==
    /\ wpc = "write"
    /\ manifest' = snap
    /\ wpc' = "close"
    /\ UNCHANGED <<now, files, nextId, qs, flags, ready, manifest_lock,
                   startup, snap, callers, history, mutSinceFlush,
                   registry, supply>>

\* the file is closed: self.clean(), release the lock, asyncio.sleep
WriterClose ==
    /\ wpc = "close"
    /\ clean
    /\ manifest_lock' = "free"
    /\ wpc' = "sleep"
    /\ snap' = dumps(<<>>)
    /\ UNCHANGED <<now, disk, nextId, qs, ready, startup, callers, history,
                   mutSinceFlush,
                   registry, supply>>

\* a manifest writer that calls clean() although the flush failed
WriterFailClean ==
    /\ wpc \in {"open", "write"}
    /\ clean
    /\ manifest_lock' = "free"
    /\ wpc' = "sleep"
    /\ snap' = dumps(<<>>)
    /\ UNCHANGED <<now, disk, nextId, qs, ready, startup, callers,
                   history, mutSinceFlush,
                   registry, supply>>

\* opening or writing raises: the except clause logs, the lock is released,
\* clean() is not called
WriterFail ==
    /\ wpc \in {"open", "write"}
    /\ manifest_lock' = "free"
    /\ wpc' = "sleep"
    /\ snap' = dumps(<<>>)
    /\ UNCHANGED <<now, disk, nextId, qs, flags, ready, startup, callers,
                   history, mutSinceFlush,
                   registry, supply>>

\* await asyncio.sleep(write_time) is over
WriterSleep ==
    /\ wpc = "sleep"
    /\ wpc' = "wait_dirty"
    /\ UNCHANGED <<now, disk, nextId, qs, flags, ready, manifest_lock,
                   startup, snap, callers, history, mutSinceFlush,
                   registry, supply>>

\* ---- environment ----
\* time passes
Tick ==
    /\ \E d \in {TTL, TTL + 1} : now + d <= MaxTime /\ now' = now + d
    /\ UNCHANGED <<disk, nextId, qs, flags, ready, manifest_lock, startup,
                   writer, callers, history, mutSinceFlush,
                   registry, supply>>

\* the process stops and a fresh DurableBuffer is constructed on the same
\* directory and key (__init__): the disk stays, the memory does not
Restart ==
    /\ restarts < MaxRestarts
    /\ restarts' = restarts + 1
    /\ pre' = [q |-> q, synced |-> manifest_clean /\ ~mutSinceFlush]
    /\ plain' = FALSE
    /\ qs' = << <<>> >>
    /\ manifest_dirty' = FALSE
    /\ manifest_clean' = FALSE
    /\ ready' = FALSE
    /\ manifest_lock' = "free"
    /\ spc' = "open"
    /\ data' = Missing
    /\ loaded_items' = <<>>
    /\ wpc' = "unborn"
    /\ snap' = dumps(<<>>)
    /\ pc' = [c \in Callers |-> "idle"]
    /\ item' = [c \in Callers |-> NoItem]
    /\ bound' = [c \in Callers |-> 0]
    /\ out' = [c \in Callers |-> "none"]
    /\ waited' = {}
    /\ mutSinceFlush' = FALSE
    /\ getLog' = <<>>
    /\ expiredGot' = {}
    /\ badGot' = {}
    /\ enq' = <<>>
    /\ UNCHANGED <<now, disk, nextId,
                   registry, supply>>

Next ==
    \/ StartOpen
    \/ StartRead
    \/ StartFinish
    \/ StartFail
    \/ \E c \in Callers : PutCall(c)
    \/ \E c \in Callers : PutBegin(c)
    \/ \E c \in Callers : PutWritten(c)
    \/ \E c \in Callers : PutWriteFail(c)
    \/ \E c \in Callers : PutEnqueue(c)
    \/ \E c \in Callers : PutIdent(c)
    \/ \E c \in Callers : GetCall(c)
    \/ \E c \in Callers : GetBegin(c)
    \/ \E c \in Callers : GetResume(c)
    \/ \E c \in Callers : SweepCall(c)
    \/ \E c \in Callers : SweepRun(c)
    \/ WriterWake
    \/ WriterOpen
    \/ WriterWrite
    \/ WriterClose
    \/ WriterFail
    \/ WriterSleep
    \/ Tick

Spec == Init /\ [][Next]_vars

\* the buffer with producers and consumers that use put and get only, in a
\* process that may be restarted
NextRestart ==
    \/ StartOpen
    \/ StartRead
    \/ StartFinish
    \/ StartFail
    \/ \E c \in Callers : PutCall(c)
    \/ \E c \in Callers : PutBegin(c)
    \/ \E c \in Callers : PutWritten(c)
    \/ \E c \in Callers : PutWriteFail(c)
    \/ \E c \in Callers : PutEnqueue(c)
    \/ \E c \in Callers : GetCall(c)
    \/ \E c \in Callers : GetBegin(c)
    \/ \E c \in Callers : GetResume(c)
    \/ WriterWake
    \/ WriterOpen
    \/ WriterWrite
    \/ WriterClose
    \/ WriterFail
    \/ WriterSleep
    \/ Restart

SpecRestart == Init /\ [][NextRestart]_vars

\* the buffer with tasks that call put, get and expire_all while time
\* passes, one descriptor more than in Spec, without the manifest writer's
\* steps (they change neither the queue nor what get returns)
InitOrder == Start(MaxItems + 1)

NextOrder ==
    \/ StartOpen
    \/ StartRead
    \/ StartFinish
    \/ \E c \in Callers : PutCall(c)
    \/ \E c \in Callers : PutBegin(c)
    \/ \E c \in Callers : PutWritten(c)
    \/ \E c \in Callers : PutEnqueue(c)
    \/ \E c \in Callers : GetCall(c)
    \/ \E c \in Callers : GetBegin(c)
    \/ \E c \in Callers : GetResume(c)
    \/ \E c \in Callers : SweepCall(c)
    \/ Tick

SpecOrder == InitOrder /\ [][NextOrder]_vars

\* ---- FileBufferManager ----
\* __missing__ that returns a new DurableBuffer without storing it
LookupUncached(k) ==
    /\ Len(handed) < MaxLookups
    /\ made' = made + 1
    /\ handed' = Append(handed, [key |-> k, buf |-> made + 1, ready |-> FALSE])
    /\ UNCHANGED <<buffers, up>>
    /\ UNCHANGED <<now, disk, nextId, qs, flags, ready, manifest_lock,
                   startup, writer, callers, history, mutSinceFlush, supply>>

\* manager[key]: dict.__getitem__ returns the stored value, or calls
\* __missing__, which constructs a DurableBuffer (whose __init__ creates its
\* start_manifest task), stores it under the key and returns self[key];
\* nothing in the lookup awaits
Lookup(k) ==
    /\ Len(handed) < MaxLookups
    /\ IF buffers[k] = NoBuffer
       THEN /\ made' = made + 1
            /\ buffers' = [buffers EXCEPT ![k] = made + 1]
       ELSE UNCHANGED <<made, buffers>>
    /\ handed' = Append(handed, [key |-> k, buf |-> buffers'[k],
                                 ready |-> buffers'[k] \in up])
    /\ UNCHANGED up
    /\ UNCHANGED <<now, disk, nextId, qs, flags, ready, manifest_lock,
                   startup, writer, callers, history, mutSinceFlush, supply>>

\* the start_manifest task of a constructed buffer sets its READY event
BufferReady(b) ==
    /\ b \in (1..made) \ up
    /\ up' = up \cup {b}
    /\ UNCHANGED <<buffers, made, handed>>
    /\ UNCHANGED <<now, disk, nextId, qs, flags, ready, manifest_lock,
                   startup, writer, callers, history, mutSinceFlush, supply>>

NextRegistry ==
    \/ \E k \in Keys : Lookup(k)
    \/ \E b \in 1..MaxLookups : BufferReady(b)

SpecRegistry == Init /\ [][NextRegistry]_vars

\* ---- properties ----
Paths(s) == [i \in 1..Len(s) |-> s[i].path]
Last(s) == s[Len(s)]

\* C1: crash-recovery round trip. When a buffer whose last flush completed
\* with no mutation since it began is restarted, the queue of the new
\* instance at the moment READY is set holds descriptors whose paths are, in
\* order, those of the queue at the time of the flush.
C1_RoundTrip ==
    [][(restarts > 0 /\ pre.synced /\ ~ready /\ ready')
         => Paths(q') = Paths(pre.q)]_vars

\* C2: put/get FIFO order. As long as the puts ran one at a time and were
\* all written, nothing was handed to put_ident, expire_all did not run and
\* no get found an expired descriptor, the i-th descriptor returned by get is
\* the one the i-th put created.
C2_Fifo == plain => \A i \in 1..Len(getLog) : getLog[i] = NewItem(i, getLog[i].et.t - TTL)

C2_Witness ==
    /\ plain
    /\ Len(getLog) = 2
    /\ nextId = 2
    /\ \A c \in Callers : pc[c] = "idle"

\* C3: expire_all sweep correctness. A run of expire_all on a queue of
\* well-formed descriptors leaves in the queue exactly the descriptors that
\* are not expired, in their order, leaves no payload file of an expired
\* one, and marks the buffer dirty.
C3_Sweep ==
    [][(/\ Len(qs') > Len(qs)
        /\ \A i \in 1..Len(q) : q[i].et.k = "dt" /\ q[i].path # NoPath)
         => LET alive(d) == ~(d.et.t < now)
            IN  /\ q' = SelectSeq(q, alive)
                /\ \A i \in 1..Len(q) : ~alive(q[i]) => q[i].path \notin files'
                /\ manifest_dirty' /\ ~manifest_clean']_vars

\* a step in which caller c runs the loop of get on self.q
GetOnQueue(c) ==
    /\ ready
    /\ GetCall(c) \/ GetBegin(c) \/ (GetResume(c) /\ bound[c] = cur)

\* C4: expiration on consumption, return value. What get returns has an
\* expire_time that is not before the current time; and a get on a queue that
\* holds expired descriptors and then one that is well formed and not
\* expired returns that one and leaves the queue with what was behind it.
C4_NoExpired ==
    [][/\ Len(getLog') > Len(getLog)
         => Last(getLog').et.k = "dt" /\ ~(Last(getLog').et.t < now)
       /\ \A c \in Callers : \A k \in 1..Len(q) :
            (/\ GetOnQueue(c)
             /\ \A j \in 1..(k - 1) : q[j].et.k = "dt" /\ q[j].et.t < now
             /\ q[k].et.k = "dt" /\ ~(q[k].et.t < now) /\ q[k].path # NoPath)
              => /\ getLog' = Append(getLog, q[k])
                 /\ q' = SubSeq(q, k + 1, Len(q))]_vars

C4_Witness ==
    /\ expiredGot # {}
    /\ badGot = {}
    /\ Len(getLog) = 1
    /\ getLog[1].id \notin expiredGot
    /\ getLog[1].path # NoPath
    /\ ~(getLog[1].et.t < now)

\* C5: expiration on consumption, side effect. Once the deferred I/O
\* executor has no job left to run, the payload file of every descriptor that
\* get popped and found expired is gone.
C5_Removed ==
    (\A c \in Callers : pc[c] # "put_write")
      => \A i \in expiredGot : i \notin files

\* C6: dirty/clean convergence. When a flush completes and the queue was not
\* mutated since the flush began, the dirty event is clear, the clean event
\* is set, and the manifest file decodes to the descriptors in the queue, in
\* queue order.
C6_Converge ==
    [][(wpc = "close" /\ wpc' = "sleep" /\ ~mutSinceFlush)
         => /\ ~manifest_dirty' /\ manifest_clean'
            /\ manifest'.kind = "json"
            /\ Len(manifest'.body) = Len(q')
            /\ \A i \in 1..Len(q') : decode(manifest'.body[i]) = q'[i]]_vars

C6_Witness ==
    /\ wpc = "sleep"
    /\ manifest_clean /\ ~manifest_dirty
    /\ ~mutSinceFlush
    /\ Len(q) = 2
    /\ manifest = dumps(q)

\* C7: readiness gating. While READY is not set, a put or get that was
\* called is suspended, has raised nothing, and no payload file has been
\* written, no descriptor of a put enqueued, nothing popped or returned;
\* once READY is set, a suspended put or get can go on.
C7_Gate ==
    /\ ~ready =>
         /\ \A c \in Callers : pc[c] \in {"idle", "put_ready", "get_ready", "sweep_lock"}
         /\ \A c \in waited : pc[c] \in {"put_ready", "get_ready"} /\ out[c] = "none"
         /\ files = {}
         /\ getLog = <<>> /\ expiredGot = {} /\ badGot = {}
    /\ ready =>
         \A c \in Callers :
            /\ pc[c] = "put_ready" => ENABLED PutBegin(c)
            /\ pc[c] = "get_ready" => ENABLED GetBegin(c)

C7_Witness ==
    /\ ready
    /\ waited = Callers
    /\ \A c \in Callers : pc[c] = "idle" /\ out[c] = "none"
    /\ Len(getLog) = 1
    /\ getLog[1].id \in files

\* C8: a corrupt manifest is not fatal. When what start_manifest read from
\* the manifest file cannot be decoded, the startup task does not fail, and
\* it ends with READY set, nothing pushed on the queue and the manifest
\* writer launched.
C8_Corrupt ==
    [][data'.kind \in {"garbage", "empty"}
         => /\ spc' \in {"close", "done"}
            /\ spc' = "done" => ready' /\ loaded_items' = <<>> /\ wpc' # "unborn"
            /\ (spc = "close" /\ spc' = "done") => q' = q]_vars

C8_Witness ==
    /\ data.kind = "garbage"
    /\ spc = "done" /\ ready
    /\ \E i \in 1..Len(q) : q[i] = NewItem(q[i].id, q[i].et.t - TTL) /\ q[i].id \in files
    /\ manifest = dumps(q)

\* C9: payload write failure in put. When the deferred write of a put
\* fails, the put ends with the error raised to its caller, and the queue,
\* the dirty and clean events and the payload files are as they were.
C9_WriteFail ==
    [][\A c \in Callers :
         (pc[c] = "put_write" /\ pc'[c] = "idle")
           => /\ out'[c] = "OSError"
              /\ qs' = qs
              /\ manifest_dirty' = manifest_dirty
              /\ manifest_clean' = manifest_clean
              /\ files' = files]_vars

C9_Witness ==
    \E c \in Callers :
        /\ out[c] = "OSError" /\ pc[c] = "idle"
        /\ nextId = 1 /\ q = <<>> /\ getLog = <<>> /\ badGot = {} /\ expiredGot = {}
        /\ ready /\ ~manifest_dirty /\ ~manifest_clean

C11_Memo ==
    [][/\ \A i, j \in 1..Len(handed') :
            (handed'[i].key = handed'[j].key) <=> (handed'[i].buf = handed'[j].buf)
       /\ \A i \in 1..Len(handed') : handed'[i].buf = buffers'[handed'[i].key]
       /\ made' = Cardinality({handed'[i].key : i \in 1..Len(handed')})
       /\ made' = Cardinality({k \in Keys : buffers'[k] # NoBuffer})
       /\ \A k \in Keys : buffers[k] # NoBuffer => buffers'[k] = buffers[k]
       /\ Len(handed') > Len(handed)
            => /\ up' = up
               /\ Last(handed').ready = (Last(handed').buf \in up)
               /\ buffers[Last(handed').key] = NoBuffer => ~Last(handed').ready]_vars

C11_Witness ==
    /\ Len(handed) = 4
    /\ handed[1].key = handed[3].key /\ handed[1].buf = handed[3].buf
    /\ ~handed[1].ready /\ handed[3].ready
    /\ handed[2].key # handed[1].key /\ handed[2].buf # handed[1].buf
    /\ handed[4].key = handed[2].key /\ ~handed[4].ready
    /\ made = 2

\* C12: no lost flush under concurrent mutation. In a run of puts and gets
\* alone, whenever the clean event is set the manifest file decodes to the
\* descriptors in the queue, in queue order.
C12_NoLostFlush ==
    (plain /\ manifest_clean)
      => manifest.kind = "json" /\ loads(manifest) = q

\* C13: startup always reaches READY. As long as READY is not set, the
\* startup task is alive and has a step to take towards setting it, whatever
\* the manifest read came to; and once the task is done READY is set and the
\* manifest writer launched.
C13_Startup ==
    /\ ~ready => ENABLED (StartOpen \/ StartRead \/ StartFinish)
    /\ spc = "done" => ready /\ wpc # "unborn"

\* C14: get liveness. A get that is suspended on the empty queue of a READY
\* buffer can resume as soon as the head of the buffer's queue is a well
\* formed descriptor that is not expired.
C14_GetWakes ==
    \A c \in Callers :
        (/\ pc[c] = "get_q"
         /\ ready
         /\ q # <<>>
         /\ Live(Head(q), now) /\ Head(q).path # NoPath)
          => ENABLED GetResume(c)

\* C15: FIFO order under interleaving. Of two descriptors that puts
\* appended to the queue and that are not expired, the one appended later has
\* been returned by get only if the one appended earlier was returned before
\* it; and get has returned no descriptor twice.
C15_Order ==
    /\ \A i, j \in 1..Len(enq) :
         (/\ i < j
          /\ enq[i].by = "put" /\ enq[j].by = "put"
          /\ Live(enq[i].d, now) /\ Live(enq[j].d, now))
           => \A n \in 1..Len(getLog) :
                getLog[n] = enq[j].d => \E m \in 1..(n - 1) : getLog[m] = enq[i].d
    /\ \A m, n \in 1..Len(getLog) : getLog[m].id = getLog[n].id => m = n

\* C16: manifest lock mutual exclusion. The manifest file changes only in
\* steps of the manifest writer taken while it holds the lock; the writer
\* holds the lock exactly from waking until the flush ends; expire_all swaps
\* and refills the queue only when the lock is free, within one step that
\* leaves the lock free, and is suspended without touching the queue when it
\* finds the lock held; and what the writer writes is the serialisation of
\* the whole queue as it was in the step that took the snapshot.
C16_Lock ==
    [][/\ manifest' # manifest
            => manifest_lock = "writer" /\ manifest_lock' = "writer"
                 /\ wpc \in {"open", "write"}
       /\ (manifest_lock' = "writer") <=> (wpc' \in {"open", "write", "close"})
       /\ Len(qs') > Len(qs)
            => manifest_lock = "free" /\ manifest_lock' = "free"
                 /\ wpc \notin {"open", "write", "close"} /\ wpc' = wpc
       /\ \A c \in Callers :
            (pc[c] # "sweep_lock" /\ pc'[c] = "sweep_lock")
              => manifest_lock = "writer" /\ qs' = qs
       /\ (wpc = "open" /\ wpc' = "write") => snap' = dumps(q) /\ qs' = qs
       /\ (wpc = "write" /\ wpc' = "close") => manifest' = snap]_vars

C16_Witness ==
    /\ Len(qs) = 2
    /\ manifest_lock = "writer" /\ wpc = "close"
    /\ q # <<>> /\ manifest = dumps(q)
    /\ \E c \in Callers : out[c] = "AttributeError"

\* C17: manifest write failure is retried. A flush that fails while opening
\* or writing leaves the dirty event set and the clean event clear and
\* releases the lock; the writer, once launched, is always at one of the
\* positions of its loop; its sleep can end, and when it waits with the dirty
\* event set it can start a flush; only a flush that completes clears the
\* dirty event, and it sets the clean event.
C17_Retry ==
    [][/\ (wpc \in {"open", "write"} /\ wpc' = "sleep")
            => /\ manifest_dirty' /\ ~manifest_clean'
               /\ manifest_lock' = "free"
       /\ wpc # "unborn"
            => wpc' \in {"wait_dirty", "open", "write", "close", "sleep"}
       /\ wpc = "sleep" => ENABLED WriterSleep
       /\ (wpc = "wait_dirty" /\ manifest_dirty) => ENABLED WriterWake
       /\ (manifest_dirty /\ ~manifest_dirty') => wpc = "close"
       /\ (wpc = "close" /\ wpc' = "sleep")
            => manifest_clean' /\ ~manifest_dirty']_vars

C17_Witness ==
    /\ wpc = "sleep"
    /\ manifest = Truncated
    /\ manifest_dirty /\ ~manifest_clean
    /\ manifest_lock = "free"
    /\ q # <<>>

\* C18: every queue mutation marks the buffer dirty. A step in which put,
\* put_ident or get appends to or pops from a queue object ends with the
\* dirty event set and the clean event clear; and the two events are never
\* both set.
C18_Dirty ==
    [][/\ (\E g \in 1..Len(qs) : Len(qs') = Len(qs) /\ qs'[g] # qs[g] /\ spc' = spc)
            => manifest_dirty' /\ ~manifest_clean'
       /\ Len(enq') > Len(enq) => qs' # qs
       /\ Len(getLog') > Len(getLog) => qs' # qs
       /\ (expiredGot' # expiredGot \/ badGot' # badGot) => qs' # qs
       /\ ~(manifest_dirty' /\ manifest_clean')]_vars

C18_Witness ==
    /\ wpc \in {"sleep", "wait_dirty"}
    /\ manifest.kind = "json" /\ Len(manifest.body) = 2
    /\ q = <<>> /\ Len(qs) = 1
    /\ expiredGot # {} /\ badGot # {} /\ getLog = <<>>
    /\ manifest_dirty /\ ~manifest_clean

C20_Payloads ==
    [][/\ \A i \in 1..Len(enq') : enq'[i].by = "put" => enq'[i].d.path \in files'
       /\ \A p \in files \ files' :
            \A g \in 1..Len(qs) : \A k \in 1..Len(qs[g]) : qs[g][k].path # p
       /\ \A m \in {snap', manifest'} : \A k \in 1..Len(m.body) :
            (\E i \in 1..Len(enq') :
                enq'[i].by = "put" /\ encode(enq'[i].d) = m.body[k])
              => m.body[k].path \in files'
       /\ (wpc = "write" /\ wpc' = "close") => manifest' = snap]_vars

C20_Witness ==
    /\ Len(enq) = 2
    /\ enq[1].by = "put_ident" /\ enq[1].d.path \notin files
    /\ enq[2].by = "put" /\ enq[2].d.path \in files
    /\ manifest = dumps(<<enq[1].d, enq[2].d>>)
    /\ wpc = "sleep" /\ manifest_clean

====
